---- MODULE Spec2Model ----
(***************************************************************************)
(* Model of download_noaa.py: the availability prober, the per station-day *)
(* task download_files with its helpers, and the thread-pool coordinator   *)
(* in main.  The network, the curl and CRX2RNX subprocesses and the file   *)
(* system are the environment: every outcome they can produce is a         *)
(* nondeterministic choice of the action that calls them.                  *)
(***************************************************************************)
EXTENDS Integers, Sequences, FiniteSets, TLC

\* ---- bounds of the model ------------------------------------------------
MaxDates == 2
MaxStations == 3
\* the runs explored submit at most MaxSubmitted (date, station) pairs
MaxSubmitted == 2
\* largest pool size explored; the ThreadPoolExecutor of main has 10 workers,
\* the model runs every pool of 1..max_workers workers so that a run of
\* MaxSubmitted tasks can exceed the pool
max_workers == 2

\* ---- program constants --------------------------------------------------
retries == 3
delay == 5

StationIds == {"abcd", "corv"}
Dates == 1..MaxDates
TaskIds == 1..MaxSubmitted
Keys == Dates \X StationIds

VARIABLES
    dates_to_download_list,    \* main: the inclusive date range, a sequence of days
    station_id_list,           \* main: what get_station_ids returned
    total_expected_downloads,  \* main, line 226
    workers,                   \* main, line 229: worker threads of the pool
    marker,                    \* last character of the file name inside the URLs
    upc,                       \* URL builder: position of one call and its use
    date,                      \* get_combined_url: its date argument
    station_id,                \* get_combined_url: its station_id argument
    combined_url,              \* get_combined_url: the string returned
    download_dir_name,         \* main, line 233
    file_name_gz,              \* download_files, line 174
    file_name_d,               \* download_files, line 177
    dst_name,                  \* handle_hatanaka_rinex, line 78
    mpc,                       \* main: position of the driving thread
    di,                        \* main: index of the date the outer loop is at
    si,                        \* main: index of the station the inner loop is at
    tasks,                     \* main: the submitted calls, <<date, station>> each
    fut,                       \* state of each Future of tasks
    yielded,                   \* futures as_completed has handed to the loop
    num_successful_downloads,  \* main, line 236
    summary,                   \* the two numbers printed at lines 246-247
    frame,                     \* locals of each running download_files call
    dirs,                      \* file system: daily/<year>/<ddd> exists
    gz,                        \* file system: <station><ddd>0.<yy>d.gz exists
    dfile,                     \* file system: <station><ddd>0.<yy>d exists
    ofile                      \* file system: <station><ddd>0.<yy>o, and who wrote it

urlVars == <<upc, date, station_id, combined_url, download_dir_name, file_name_gz,
             file_name_d, dst_name>>
inputVars == <<dates_to_download_list, station_id_list, total_expected_downloads,
               workers, marker, urlVars>>
mainVars == <<mpc, di, si, tasks, yielded, num_successful_downloads, summary>>
fsVars == <<dirs, gz, dfile, ofile>>
vars == <<inputVars, mainVars, fut, frame, fsVars>>

\* ---- helpers -------------------------------------------------------------
SeqsUpTo(S, n) == UNION {[1..k -> S] : k \in 0..n}

NoFrame == [pc |-> "none"]

\* locals of download_files on entry, and the counters the properties read
NewFrame ==
    [pc |-> "head", attempt |-> 0, probes |-> 1, heads |-> 0, timeouts |-> 0, sleeps |-> 0,
     slept |-> 0,
     available |-> "none", downloads |-> 0, unzipped |-> "none",
     gz_removed |-> "none", conversions |-> 0, crx_exit |-> "none",
     o_found |-> "none", d_removed |-> "none"]

\* a total that adds the two lengths
TotalExpected_Sum(dates, stations) == Len(dates) + Len(stations)

\* line 226
TotalExpected(dates, stations) == Len(dates) * Len(stations)

KeyOf(i) == tasks[i]
DateOf(i) == tasks[i][1]

Terminal == {"True", "False", "raised"}
Running == {i \in TaskIds : fut[i] = "running"}

\* ---- initial state --------------------------------------------------------
Inputs(maxN) ==
    {in \in [dates : {[i \in 1..n |-> i] : n \in 1..MaxDates},
             stations : SeqsUpTo(StationIds, MaxStations)] :
        TotalExpected(in.dates, in.stations) <= maxN}

KeysOfRun == {<<dates_to_download_list[i], station_id_list[j]>> :
                 i \in 1..Len(dates_to_download_list), j \in 1..Len(station_id_list)}

\* state of main before the pool is created
InitMain(in) ==
    /\ dates_to_download_list = in.dates
    /\ station_id_list = in.stations
    /\ total_expected_downloads = TotalExpected(in.dates, in.stations)
    /\ mpc = "submit"
    /\ di = 1
    /\ si = 1
    /\ tasks = <<>>
    /\ fut = [i \in TaskIds |-> "none"]
    /\ yielded = {}
    /\ num_successful_downloads = 0
    /\ summary = <<>>
    /\ frame = [i \in TaskIds |-> NoFrame]

\* a working directory that earlier runs may have left .o files in
InitRun ==
    /\ \E in \in Inputs(MaxSubmitted) : InitMain(in)
    /\ workers \in 1..max_workers
    /\ dirs \in [Dates -> BOOLEAN]
    /\ gz = [k \in Keys |-> FALSE]
    /\ dfile = [k \in Keys |-> FALSE]
    /\ ofile \in [Keys -> {"none", "old"}]
    /\ \A k \in Keys : ofile[k] = "old" => dirs[k[1]] /\ k \in KeysOfRun
    /\ \A d \in Dates : dirs[d] => d \in {k[1] : k \in KeysOfRun}

\* line 111: get_combined_url builds names that end in "d"; download_files
\* takes any URL, e.g. one of an "o" file
Markers == {"d", "o"}

\* no call of the URL builder is followed on its own
NoUrl ==
    /\ upc = "idle"
    /\ date = [year |-> 0, month |-> 0, day |-> 0]
    /\ station_id = <<>>
    /\ combined_url = <<>>
    /\ download_dir_name = <<>>
    /\ file_name_gz = <<>>
    /\ file_name_d = <<>>
    /\ dst_name = <<>>

\* main: every URL comes from get_combined_url
Init == InitRun /\ marker = "d" /\ NoUrl

\* download_files called with URLs of either kind
InitAnyUrl == InitRun /\ marker \in Markers /\ NoUrl

\* lines 174-177: the decompressed file is the archive's name without ".gz";
\* it is the .d file, or the .o file itself when the name ends in "o"
DecName == IF marker = "d" THEN "d" ELSE "o"
DecExists(k) == IF marker = "d" THEN dfile[k] ELSE ofile[k] # "none"

\* ---- is_url_available ------------------------------------------------------
HeadResponses == {"200", "other", "timeout"}

\* lines 30-33: one requests.head; any response ends the loop with
\* status_code == 200, a RequestException goes to the except branch
HeadResult(f, r) ==
    IF r = "timeout"
    THEN [f EXCEPT !.heads = @ + 1, !.timeouts = @ + 1, !.pc = "sleep"]
    ELSE [f EXCEPT !.heads = @ + 1, !.pc = "probed",
                   !.available = IF r = "200" THEN "True" ELSE "False"]

\* lines 34, 28, 35: sleep(delay), then the next attempt or return False
SleepResult(f) ==
    LET g == [f EXCEPT !.sleeps = @ + 1, !.slept = @ + delay, !.attempt = @ + 1]
    IN  IF g.attempt < retries
        THEN [g EXCEPT !.pc = "head"]
        ELSE [g EXCEPT !.pc = "probed", !.available = "False"]

\* a task that goes on whatever the prober returned
AfterProbe_IgnoreResult(f) ==
    [f EXCEPT !.pc = "makedirs",
              !.attempt = 0, !.heads = 0, !.timeouts = 0, !.sleeps = 0, !.slept = 0,
              !.available = "none"]

\* lines 168-170: the prober has returned and its locals are gone; the task
\* goes on only when it returned True
AfterProbe(f) ==
    [f EXCEPT !.pc = IF f.available = "True" THEN "makedirs" ELSE "ret_skip",
              !.attempt = 0, !.heads = 0, !.timeouts = 0, !.sleeps = 0, !.slept = 0,
              !.available = "none"]

\* ---- remove_file -----------------------------------------------------------
\* os.remove on a path that exists either removes it or fails (permissions,
\* a busy file); on a missing path it fails.  <<returned, file still exists>>
RemoveOutcomes(exists) ==
    IF exists THEN {<<"True", FALSE>>, <<"False", TRUE>>} ELSE {<<"False", FALSE>>}

\* ---- unzip_file ------------------------------------------------------------
\* gzip.open raises when the archive is missing, before dst is opened; with
\* the archive present the copy succeeds, or fails before or after dst was
\* created.  <<returned, .d exists afterwards>>
UnzipOutcomes(gzExists, dExists) ==
    IF gzExists
    THEN {<<"True", TRUE>>, <<"False", TRUE>>, <<"False", dExists>>}
    ELSE {<<"False", dExists>>}

\* ---- download_files, one action per step -----------------------------------
Step(t, f) == frame' = [frame EXCEPT ![t] = f]
At(t, p) == fut[t] = "running" /\ frame[t].pc = p

\* a pool that keeps one worker thread unused
PoolHasIdleWorker_OneLess == Cardinality(Running) < workers - 1

\* a pool that starts a thread for every queued call
PoolHasIdleWorker_Unbounded == TRUE

\* line 229: the pool runs at most `workers` calls at a time
PoolHasIdleWorker == Cardinality(Running) < workers

\* a worker thread takes the oldest queued call
Start(t) ==
    /\ fut[t] = "pending"
    /\ \A u \in TaskIds : u < t => fut[u] # "pending"
    /\ PoolHasIdleWorker
    /\ fut' = [fut EXCEPT ![t] = "running"]
    /\ Step(t, NewFrame)
    /\ UNCHANGED <<inputVars, mainVars, fsVars>>

HeadRequest(t) ==
    /\ At(t, "head")
    /\ \E r \in HeadResponses : Step(t, HeadResult(frame[t], r))
    /\ UNCHANGED <<inputVars, mainVars, fut, fsVars>>

Sleep(t) ==
    /\ At(t, "sleep")
    /\ Step(t, SleepResult(frame[t]))
    /\ UNCHANGED <<inputVars, mainVars, fut, fsVars>>

Probed(t) ==
    /\ At(t, "probed")
    /\ Step(t, AfterProbe(frame[t]))
    /\ UNCHANGED <<inputVars, mainVars, fut, fsVars>>

\* an exception that leaves download_files: the Future holds it
Raise(t) ==
    /\ fut' = [fut EXCEPT ![t] = "raised"]
    /\ Step(t, NoFrame)

\* line 173: os.makedirs(download_dir, exist_ok=True); an OSError is not a
\* CalledProcessError and leaves the function
Makedirs(t) ==
    /\ At(t, "makedirs")
    /\ \/ /\ dirs' = [dirs EXCEPT ![DateOf(t)] = TRUE]
          /\ Step(t, [frame[t] EXCEPT !.pc = "curl"])
          /\ UNCHANGED fut
       \/ /\ ~dirs[DateOf(t)]
          /\ Raise(t)
          /\ UNCHANGED dirs
    /\ UNCHANGED <<inputVars, mainVars, gz, dfile, ofile>>

\* lines 183-191: curl -o; exit 0 leaves the archive, a non-zero exit
\* (CalledProcessError) returns False with or without a partial archive, a
\* missing curl executable (FileNotFoundError) leaves the function
Curl(t) ==
    /\ At(t, "curl")
    /\ LET f == [frame[t] EXCEPT !.downloads = @ + 1]
       IN  \/ /\ gz' = [gz EXCEPT ![KeyOf(t)] = TRUE]
              /\ Step(t, [f EXCEPT !.pc = "unzip"])
              /\ UNCHANGED fut
           \/ /\ \E left \in {gz[KeyOf(t)], TRUE} : gz' = [gz EXCEPT ![KeyOf(t)] = left]
              /\ Step(t, [f EXCEPT !.pc = "ret_download_failed"])
              /\ UNCHANGED fut
           \/ /\ Raise(t)
              /\ UNCHANGED gz
    /\ UNCHANGED <<inputVars, mainVars, dirs, dfile, ofile>>

\* the decompressed file after a step that leaves it existing or not, with
\* new content when the step wrote all of it
WriteDec(k, exists, rewritten) ==
    IF marker = "d"
    THEN dfile' = [dfile EXCEPT ![k] = exists] /\ ofile' = ofile
    ELSE /\ dfile' = dfile
         /\ ofile' = [ofile EXCEPT ![k] = IF ~exists THEN "none"
                                          ELSE IF rewritten \/ @ = "none" THEN "new"
                                          ELSE @]

\* lines 194-200: unzip_file's result is dropped, and neither unzip_file nor
\* remove_file lets an exception out, so the except of line 198 never runs
AfterUnzip(f, returned) == [f EXCEPT !.unzipped = returned, !.pc = "rm_gz"]

Unzip(t) ==
    /\ At(t, "unzip")
    /\ \E out \in UnzipOutcomes(gz[KeyOf(t)], DecExists(KeyOf(t))) :
          /\ WriteDec(KeyOf(t), out[2], out[1] = "True")
          /\ Step(t, AfterUnzip(frame[t], out[1]))
    /\ UNCHANGED <<inputVars, mainVars, fut, dirs, gz>>

\* lines 196-197: remove_file on the archive; its result is only stored
AfterRmGz(f, returned) == [f EXCEPT !.gz_removed = returned, !.pc = "hatanaka"]

RmGz(t) ==
    /\ At(t, "rm_gz")
    /\ \E out \in RemoveOutcomes(gz[KeyOf(t)]) :
          /\ gz' = [gz EXCEPT ![KeyOf(t)] = out[2]]
          /\ Step(t, AfterRmGz(frame[t], out[1]))
    /\ UNCHANGED <<inputVars, mainVars, fut, dirs, dfile, ofile>>

\* ---- handle_hatanaka_rinex ---------------------------------------------------
\* a conversion that runs the converter whether or not the .o file exists
AfterDstCheck_AlwaysConvert(f, oExists) == [f EXCEPT !.pc = "crx2rnx"]

\* lines 74-80: the names get_combined_url builds end in "d"; an existing .o
\* is returned without running the converter
AfterDstCheck(f, oExists) ==
    IF oExists
    THEN [f EXCEPT !.o_found = "before", !.pc = "rm_d"]
    ELSE [f EXCEPT !.pc = "crx2rnx"]

\* lines 74-76: a name that does not end in "d" is returned as it is
AfterNameCheck(f, oExists) ==
    IF marker = "d" THEN AfterDstCheck(f, oExists) ELSE [f EXCEPT !.pc = "rm_d"]

Hatanaka(t) ==
    /\ At(t, "hatanaka")
    /\ Step(t, AfterNameCheck(frame[t], ofile[KeyOf(t)] # "none"))
    /\ UNCHANGED <<inputVars, mainVars, fut, fsVars>>

\* lines 82-91: CRX2RNX exits zero or not (CalledProcessError is only
\* printed) and has written the .o file or not
CrxExits == {"zero", "nonzero"}

Crx2rnx(t) ==
    /\ At(t, "crx2rnx")
    /\ \E exit \in CrxExits, wrote \in BOOLEAN :
          /\ ofile' = [ofile EXCEPT ![KeyOf(t)] = IF wrote THEN "new" ELSE @]
          /\ Step(t, [frame[t] EXCEPT !.conversions = @ + 1, !.crx_exit = exit,
                                      !.pc = "check_o"])
    /\ UNCHANGED <<inputVars, mainVars, fut, dirs, gz, dfile>>

\* a converter check that also fails on a non-zero exit
AfterOutputCheck_ExitStatus(f, oExists) ==
    IF oExists /\ f.crx_exit = "zero"
    THEN [f EXCEPT !.o_found = "after", !.pc = "rm_d"]
    ELSE [f EXCEPT !.o_found = "missing", !.pc = "ret_conversion_failed"]

\* a converter check that does not raise
AfterOutputCheck_NoRaise(f, oExists) ==
    [f EXCEPT !.o_found = IF oExists THEN "after" ELSE "missing", !.pc = "rm_d"]

\* lines 93-96 and 207-209: a missing .o raises RuntimeError, which the
\* except of download_files turns into return False before line 205 runs
AfterOutputCheck(f, oExists) ==
    IF oExists
    THEN [f EXCEPT !.o_found = "after", !.pc = "rm_d"]
    ELSE [f EXCEPT !.o_found = "missing", !.pc = "ret_conversion_failed"]

CheckO(t) ==
    /\ At(t, "check_o")
    /\ Step(t, AfterOutputCheck(frame[t], ofile[KeyOf(t)] # "none"))
    /\ UNCHANGED <<inputVars, mainVars, fut, fsVars>>

\* a task that fails when the .d file could not be deleted
AfterRmD_Escalates(f, returned) ==
    [f EXCEPT !.d_removed = returned,
              !.pc = IF returned = "True" THEN "ret_true" ELSE "ret_conversion_failed"]

\* lines 205-206: remove_file on the .d file; its result is only stored
AfterRmD(f, returned) == [f EXCEPT !.d_removed = returned, !.pc = "ret_true"]

RmD(t) ==
    /\ At(t, "rm_d")
    /\ \E out \in RemoveOutcomes(DecExists(KeyOf(t))) :
          /\ WriteDec(KeyOf(t), out[2], FALSE)
          /\ Step(t, AfterRmD(frame[t], out[1]))
    /\ UNCHANGED <<inputVars, mainVars, fut, dirs, gz>>

\* lines 170, 191, 209, 211: the value download_files returns
ReturnPcs == {"ret_skip", "ret_download_failed", "ret_conversion_failed", "ret_true"}
\* an except branch that returns True
ReturnValue_ConversionTrue(p) ==
    IF p \in {"ret_true", "ret_conversion_failed"} THEN "True" ELSE "False"

ReturnValue(p) == IF p = "ret_true" THEN "True" ELSE "False"

Return(t) ==
    /\ fut[t] = "running"
    /\ frame[t].pc \in ReturnPcs
    /\ fut' = [fut EXCEPT ![t] = ReturnValue(frame[t].pc)]
    /\ Step(t, NoFrame)
    /\ UNCHANGED <<inputVars, mainVars, fsVars>>

\* ---- main --------------------------------------------------------------------
\* lines 230-234: one executor.submit per station of each date
LoopOver == di > Len(dates_to_download_list) \/ Len(station_id_list) = 0

Submit ==
    /\ mpc = "submit"
    /\ ~LoopOver
    /\ tasks' = Append(tasks, <<dates_to_download_list[di], station_id_list[si]>>)
    /\ fut' = [fut EXCEPT ![Len(tasks) + 1] = "pending"]
    /\ IF si < Len(station_id_list)
       THEN si' = si + 1 /\ di' = di
       ELSE si' = 1 /\ di' = di + 1
    /\ mpc' = mpc
    /\ UNCHANGED <<inputVars, yielded, num_successful_downloads, summary, frame, fsVars>>

EndSubmit ==
    /\ mpc = "submit"
    /\ LoopOver
    /\ mpc' = "collect"
    /\ UNCHANGED <<inputVars, di, si, tasks, yielded, num_successful_downloads,
                   summary, fut, frame, fsVars>>

\* a future taken for done as soon as it is submitted
Done_Submitted(t) == fut[t] # "none"

\* a Future is done when its call returned or raised
Done(t) == fut[t] \in Terminal

\* a collection loop that counts the raising task too
Counted_Raised(n, outcome) == IF outcome \in {"True", "raised"} THEN n + 1 ELSE n

\* lines 239-242: task.result() is the returned value or re-raises; the
\* except only prints
Counted(n, outcome) == IF outcome = "True" THEN n + 1 ELSE n

\* lines 237-242: as_completed hands over each future once, when it is done
Collect(t) ==
    /\ mpc = "collect"
    /\ t \in 1..Len(tasks)
    /\ t \notin yielded
    /\ Done(t)
    /\ yielded' = yielded \cup {t}
    /\ num_successful_downloads' = Counted(num_successful_downloads, fut[t])
    /\ UNCHANGED <<inputVars, mpc, di, si, tasks, summary, fut, frame, fsVars>>

\* as_completed ends when every future was handed over; leaving the with
\* block is executor.shutdown(wait=True)
Shutdown ==
    /\ mpc = "collect"
    /\ \A t \in 1..Len(tasks) : t \in yielded
    /\ \A t \in 1..Len(tasks) : Done(t)
    /\ mpc' = "print"
    /\ UNCHANGED <<inputVars, di, si, tasks, yielded, num_successful_downloads,
                   summary, fut, frame, fsVars>>

\* lines 246-247
PrintSummary ==
    /\ mpc = "print"
    /\ summary' = <<num_successful_downloads, total_expected_downloads>>
    /\ mpc' = "done"
    /\ UNCHANGED <<inputVars, di, si, tasks, yielded, num_successful_downloads,
                   fut, frame, fsVars>>

TaskStep(t) ==
    \/ Start(t) \/ HeadRequest(t) \/ Sleep(t) \/ Probed(t) \/ Makedirs(t) \/ Curl(t)
    \/ Unzip(t) \/ RmGz(t) \/ Hatanaka(t) \/ Crx2rnx(t) \/ CheckO(t)
    \/ RmD(t) \/ Return(t)

MainStep ==
    \/ Submit \/ EndSubmit \/ Shutdown \/ PrintSummary
    \/ \E t \in TaskIds : Collect(t)

Next ==
    \/ MainStep
    \/ \E t \in TaskIds : TaskStep(t)

Spec == Init /\ [][Next]_vars

\* the driving thread keeps running, every HEAD request, curl and CRX2RNX
\* call returns, and the pool keeps running each of its calls
Fairness ==
    /\ WF_vars(MainStep)
    /\ \A t \in TaskIds : WF_vars(TaskStep(t))

\* runs in which download_files gets URLs of either kind
SpecAnyUrl == InitAnyUrl /\ [][Next]_vars

FairSpec == Init /\ [][Next]_vars /\ Fairness

\* ---- get_combined_url and the file names derived from it --------------------
\* strings are sequences of one-character strings; the archive root is kept
\* as one piece
Root == "https://noaa-cors-pds.s3.amazonaws.com/rinex"

UrlYears == {1999, 2000, 2005, 2024, 2025, 2100}
UrlMonths == {1, 2, 3, 4, 12}
UrlDays == {1, 9, 10, 28, 29, 31}
UrlStations == {<<"a", "b", "c", "d">>, <<"c", "o", "r", "v">>, <<"p", "1", "9", "8">>}

\* pandas: Timestamp.dayofyear
IsLeap(y) == (y % 4 = 0 /\ y % 100 # 0) \/ y % 400 = 0

DaysIn(y, m) ==
    IF m = 2 THEN (IF IsLeap(y) THEN 29 ELSE 28)
    ELSE IF m \in {4, 6, 9, 11} THEN 30 ELSE 31

RECURSIVE DaysBefore(_, _)
DaysBefore(y, m) == IF m = 1 THEN 0 ELSE DaysBefore(y, m - 1) + DaysIn(y, m - 1)

DayOfYear(dt) == DaysBefore(dt.year, dt.month) + dt.day

ValidDates ==
    {dt \in [year : UrlYears, month : UrlMonths, day : UrlDays] :
        dt.day <= DaysIn(dt.year, dt.month)}

\* str(n) of a non-negative integer
DigitChar(d) == <<"0", "1", "2", "3", "4", "5", "6", "7", "8", "9">>[d + 1]

RECURSIVE Decimal(_)
Decimal(n) ==
    IF n < 10 THEN <<DigitChar(n)>> ELSE Decimal(n \div 10) \o <<DigitChar(n % 10)>>

\* a format that does not pad
ZeroPad_None(n, width) == Decimal(n)

\* the format specs 02d and 03d: zeros on the left up to the width
ZeroPad(n, width) ==
    LET digits == Decimal(n)
    IN  IF Len(digits) >= width THEN digits
        ELSE [i \in 1..(width - Len(digits)) |-> "0"] \o digits

\* lines 104-114
get_combined_url(dt, st) ==
    LET download_year_full == Decimal(dt.year)
        download_year_last_two == ZeroPad(dt.year % 100, 2)
        download_day == ZeroPad(DayOfYear(dt), 3)
        changing_url == download_year_full \o <<"/">> \o download_day \o <<"/">> \o st
                        \o <<"/">> \o st \o download_day \o <<"0", ".">>
                        \o download_year_last_two \o <<"d", ".", "g", "z">>
    IN  <<Root>> \o <<"/">> \o changing_url

\* line 233
DownloadDirName(dt) ==
    <<"d", "a", "i", "l", "y", "/">> \o Decimal(dt.year) \o <<"/">>
        \o ZeroPad(DayOfYear(dt), 3)

\* os.path.basename: what follows the last "/"
LastIndexOf(str, c) ==
    LET at == {i \in 1..Len(str) : str[i] = c}
    IN  IF at = {} THEN 0 ELSE CHOOSE i \in at : \A j \in at : j <= i

Basename(path) == SubSeq(path, LastIndexOf(path, "/") + 1, Len(path))

\* lines 175-177: os.path.join, [:-3], os.path.basename
FileNameD(dir, name_gz) ==
    LET file_path_gz == dir \o <<"/">> \o name_gz
        file_path_d == SubSeq(file_path_gz, 1, Len(file_path_gz) - 3)
    IN  Basename(file_path_d)

\* line 78: src.with_suffix(src.suffix[:-1] + "o"), the suffix being what
\* starts at the last "." of the name
WithSuffixO(name) ==
    LET dot == LastIndexOf(name, ".")
        stem == SubSeq(name, 1, dot - 1)
        suffix == SubSeq(name, dot, Len(name))
    IN  stem \o SubSeq(suffix, 1, Len(suffix) - 1) \o <<"o">>

runVars == <<dates_to_download_list, station_id_list, total_expected_downloads,
             workers, marker, mainVars, fut, frame, fsVars>>

\* one (date, station) pair of main's loops, before line 232
InitUrl ==
    /\ \E in \in Inputs(0) : InitMain(in)
    /\ workers = max_workers
    /\ marker = "d"
    /\ dirs = [d \in Dates |-> FALSE]
    /\ gz = [k \in Keys |-> FALSE]
    /\ dfile = [k \in Keys |-> FALSE]
    /\ ofile = [k \in Keys |-> "none"]
    /\ upc = "args"
    /\ date \in ValidDates
    /\ station_id \in UrlStations
    /\ combined_url = <<>>
    /\ download_dir_name = <<>>
    /\ file_name_gz = <<>>
    /\ file_name_d = <<>>
    /\ dst_name = <<>>

\* lines 232-233
BuildUrl ==
    /\ upc = "args"
    /\ combined_url' = get_combined_url(date, station_id)
    /\ download_dir_name' = DownloadDirName(date)
    /\ upc' = "url"
    /\ UNCHANGED <<runVars, date, station_id, file_name_gz, file_name_d, dst_name>>

\* lines 174-177 and 78
LocalNames ==
    /\ upc = "url"
    /\ file_name_gz' = Basename(combined_url)
    /\ file_name_d' = FileNameD(download_dir_name, Basename(combined_url))
    /\ dst_name' = WithSuffixO(FileNameD(download_dir_name, Basename(combined_url)))
    /\ upc' = "names"
    /\ UNCHANGED <<runVars, date, station_id, combined_url, download_dir_name>>

NextUrl == BuildUrl \/ LocalNames

SpecUrl == InitUrl /\ [][NextUrl]_vars

\* ---- properties ----------------------------------------------------------------
\* the station of task t occurs once in the station list: no other task of
\* the run works on the files of t
Alone(t) ==
    Cardinality({j \in 1..Len(station_id_list) : station_id_list[j] = tasks[t][2]}) = 1

\* task t is at a return statement of download_files
Returning(t) == fut[t] = "running" /\ frame[t].pc \in ReturnPcs

\* C1 as stated: a task about to return True has its .o file in the target
\* directory and neither its .gz nor its .d file.
C1_SuccessLeavesOnlyFinal ==
    \A t \in TaskIds :
        At(t, "ret_true") =>
            /\ ofile[KeyOf(t)] # "none"
            /\ ~gz[KeyOf(t)]
            /\ ~dfile[KeyOf(t)]

\* C1 amended: a task about to return True has its .o file in the target
\* directory; when no other task works on the same station-day, the .gz is
\* there only if remove_file on it returned False, and so is the .d.
C1_SuccessLeavesFinalAndUndeleted ==
    \A t \in TaskIds :
        At(t, "ret_true") =>
            /\ ofile[KeyOf(t)] # "none"
            /\ Alone(t) /\ gz[KeyOf(t)] => frame[t].gz_removed = "False"
            /\ Alone(t) /\ dfile[KeyOf(t)] => frame[t].d_removed = "False"

C1_Witness ==
    \E t \in TaskIds :
        /\ At(t, "ret_true")
        /\ Alone(t)
        /\ frame[t].unzipped = "True"
        /\ frame[t].gz_removed = "True"
        /\ frame[t].d_removed = "True"
        /\ ofile[KeyOf(t)] = "new"
        /\ ~gz[KeyOf(t)]
        /\ ~dfile[KeyOf(t)]

\* C2 as stated: when the converter ran and the .o file is missing, the task
\* returns False and its .d file has been deleted.
C2_FailedConversionDeletesD ==
    \A t \in TaskIds :
        At(t, "ret_conversion_failed") /\ frame[t].conversions > 0 =>
            /\ ReturnValue(frame[t].pc) = "False"
            /\ ~dfile[KeyOf(t)]

\* C2 amended: when the converter ran and the .o file is missing, the task
\* returns False without calling remove_file on the .d file; the .d file a
\* successful decompression wrote is still in the target directory when no
\* other task works on the same station-day.
C2_FailedConversionKeepsD ==
    [][\A t \in TaskIds :
          At(t, "ret_conversion_failed") =>
              /\ frame[t].conversions = 1
              /\ frame[t].o_found = "missing"
              /\ frame[t].d_removed = "none"
              /\ Alone(t) /\ frame[t].unzipped = "True" => dfile[KeyOf(t)]
              /\ fut'[t] # "running" => fut'[t] = "False" /\ dfile' = dfile]_vars

C2_Witness ==
    \E t \in TaskIds :
        /\ At(t, "ret_conversion_failed")
        /\ frame[t].conversions = 1
        /\ frame[t].unzipped = "True"
        /\ frame[t].d_removed = "none"
        /\ dfile[KeyOf(t)]
        /\ ofile[KeyOf(t)] = "none"

\* C3: a task whose probe failed, whose downloader exited non-zero or whose
\* decompression failed returns False; a task whose decompression failed is
\* never about to return True.
C3_FailedStepReturnsFalse ==
    \A t \in TaskIds :
        /\ At(t, "ret_skip") \/ At(t, "ret_download_failed")
              => ReturnValue(frame[t].pc) = "False"
        /\ Returning(t) /\ frame[t].unzipped = "False"
              => ReturnValue(frame[t].pc) = "False"

\* C4: once decompression has failed the task is at no later step than the
\* failure and the converter has not been invoked for it.
C4_FailedUnzipAborts ==
    \A t \in TaskIds :
        fut[t] = "running" /\ frame[t].pc # "none" /\ frame[t].unzipped = "False" =>
            /\ frame[t].conversions = 0
            /\ frame[t].pc \notin {"crx2rnx", "check_o", "rm_d", "ret_true",
                                   "ret_conversion_failed"}

\* C5: the prober returns False only after `retries` HEAD requests, a response
\* other than 200 being retried like a transport failure.
C5_FalseOnlyAfterAllAttempts ==
    \A t \in TaskIds :
        At(t, "probed") /\ frame[t].available = "False" => frame[t].heads = retries

\* C6: when every HEAD request timed out, the prober has made exactly
\* `retries` requests and slept `delay` between consecutive requests only,
\* retries - 1 times, when it returns False.
C6_TimeoutsSleepBetweenAttempts ==
    \A t \in TaskIds :
        At(t, "probed") /\ frame[t].timeouts = frame[t].heads =>
            /\ frame[t].available = "False"
            /\ frame[t].heads = retries
            /\ frame[t].sleeps = retries - 1
            /\ frame[t].slept = delay * (retries - 1)

\* C7: a task whose prober returned False goes straight to its skip return,
\* and returns False from there having called the prober once and neither
\* the downloader, unzip_file, the converter nor remove_file.
C7_UnavailableSkipsEverything ==
    [][\A t \in TaskIds :
          /\ At(t, "probed") /\ frame[t].available = "False" /\ frame'[t] # frame[t]
                => frame'[t].pc = "ret_skip"
          /\ At(t, "ret_skip") =>
                /\ frame[t].probes = 1
                /\ frame[t].downloads = 0
                /\ frame[t].unzipped = "none"
                /\ frame[t].conversions = 0
                /\ frame[t].gz_removed = "none" /\ frame[t].d_removed = "none"
                /\ fut'[t] # "running" => fut'[t] = "False" /\ fsVars' = fsVars]_vars

C7_Witness ==
    \E t \in TaskIds :
        /\ At(t, "ret_skip")
        /\ frame[t].probes = 1
        /\ frame[t].downloads = 0

Submitted == 1..Len(tasks)
ReturnedTrue == {t \in Submitted : fut[t] = "True"}

\* C8: in the printed summary the success count is the number of tasks that
\* returned True, every submitted task, also one that raised, having been
\* handed to the collection loop.
C8_RaisedIsNonSuccess ==
    summary # <<>> =>
        /\ yielded = Submitted
        /\ summary[1] = Cardinality(ReturnedTrue)

C8_Witness ==
    /\ summary # <<>>
    /\ \E t, u \in Submitted : fut[t] = "raised" /\ fut[u] = "True"
    /\ summary[1] = 1

\* C9: when the summary is printed, task (i, j) of the submitted sequence is
\* date i with station j, there are N = #dates * #stations of them, the
\* printed total is N and the printed success count is at most N.
C9_TotalIsNumberOfPairs ==
    summary # <<>> =>
        LET D == Len(dates_to_download_list)
            S == Len(station_id_list)
        IN  /\ Len(tasks) = D * S
            /\ \A i \in 1..D, j \in 1..S :
                  tasks[(i - 1) * S + j] = <<dates_to_download_list[i], station_id_list[j]>>
            /\ summary[2] = Len(tasks)
            /\ summary[1] <= summary[2]

C9_Witness ==
    /\ summary # <<>>
    /\ Len(tasks) = 2
    /\ summary = <<1, 2>>
    /\ \E t \in Submitted : fut[t] = "False"

\* C10: once the summary is being printed, every submitted task has returned
\* True, returned False or raised; none is queued or running.
C10_SummaryAfterAllTasks ==
    mpc \in {"print", "done"} =>
        /\ Len(tasks) = Len(dates_to_download_list) * Len(station_id_list)
        /\ \A t \in Submitted : fut[t] \in Terminal
        /\ \A t \in TaskIds : frame[t] = NoFrame

C10_Witness ==
    /\ mpc = "done"
    /\ summary # <<>>
    /\ Len(tasks) = 2
    /\ \E t, u \in Submitted : fut[t] = "False" /\ fut[u] = "raised"

\* C11: the tasks that have started and not yet returned or raised are never
\* more than the worker threads of the pool.
C11_RunningWithinPool ==
    /\ Cardinality(Running) <= workers
    /\ \A t \in TaskIds : frame[t] # NoFrame <=> t \in Running

C11_Witness ==
    /\ Cardinality(Running) = workers
    /\ \E t \in Submitted : fut[t] = "pending"
    /\ Len(tasks) > workers

\* the files of its station-day that the next step of task t reads ("r") or
\* writes or deletes ("w")
Access(t) ==
    CASE frame[t].pc = "curl" -> {<<"gz", "w">>}
      [] frame[t].pc = "unzip" -> {<<"gz", "r">>, <<DecName, "w">>}
      [] frame[t].pc = "rm_gz" -> {<<"gz", "w">>}
      [] frame[t].pc = "hatanaka" -> IF marker = "d" THEN {<<"o", "r">>} ELSE {}
      [] frame[t].pc = "crx2rnx" -> {<<"d", "r">>, <<"o", "w">>}
      [] frame[t].pc = "check_o" -> {<<"o", "r">>}
      [] frame[t].pc = "rm_d" -> {<<DecName, "w">>}
      [] OTHER -> {}

\* two running tasks are about to use the same file, one of them writing or
\* deleting it
Race(t, u) ==
    /\ t # u
    /\ KeyOf(t) = KeyOf(u)
    /\ \E a \in Access(t), b \in Access(u) : a[1] = b[1] /\ "w" \in {a[2], b[2]}

\* C12: in every interleaving and for every station list, no file is written
\* or deleted by one task while another task reads, writes or deletes it.
C12_NoFileSharedByTasks ==
    \A t, u \in Running : ~Race(t, u)

\* task t takes a step of download_files
Moves(t) == fut[t] = "running" /\ frame'[t] # frame[t]

\* C13: whatever remove_file returns, the task goes on from the deletion of
\* the archive to the conversion and from the deletion of the .d file to
\* return True; no deletion makes the task raise or return False.
C13_DeletionFailureIgnored ==
    [][\A t \in TaskIds :
          /\ At(t, "rm_gz") /\ Moves(t)
                => fut'[t] = "running" /\ frame'[t].pc = "hatanaka"
          /\ At(t, "rm_d") /\ Moves(t)
                => fut'[t] = "running" /\ frame'[t].pc = "ret_true"
          /\ At(t, "ret_true") /\ Moves(t) => fut'[t] = "True"]_vars

C13_Witness ==
    \E t \in TaskIds :
        /\ At(t, "ret_true")
        /\ frame[t].unzipped = "True"
        /\ frame[t].o_found = "after"
        /\ frame[t].gz_removed = "False"
        /\ frame[t].d_removed = "False"
        /\ gz[KeyOf(t)]
        /\ dfile[KeyOf(t)]

\* the state of the task state machine a frame is in, and its place in the
\* order Probing, Downloading, Decompressing, Converting, terminal
TaskState(f) ==
    CASE f.pc \in {"head", "sleep", "probed"} -> "Probing"
      [] f.pc \in {"makedirs", "curl"} -> "Downloading"
      [] f.pc \in {"unzip", "rm_gz"} -> "Decompressing"
      [] f.pc \in {"hatanaka", "crx2rnx", "check_o", "rm_d"} -> "Converting"
      [] f.pc = "ret_skip" -> "Skipped"
      [] f.pc = "ret_download_failed" -> "Downloading-Failed"
      [] f.pc = "ret_conversion_failed" -> "Converting-Failed"
      [] f.pc = "ret_true" -> "Done"
      [] OTHER -> "Ended"

Rank(f) ==
    CASE TaskState(f) = "Probing" -> 1
      [] TaskState(f) = "Downloading" -> 2
      [] TaskState(f) = "Decompressing" -> 3
      [] TaskState(f) = "Converting" -> 4
      [] TaskState(f) = "Ended" -> 6
      [] OTHER -> 5

\* a step of the task has failed
StepFailed(f) ==
    \/ f.unzipped = "False"
    \/ f.pc \in {"ret_skip", "ret_download_failed", "ret_conversion_failed"}

\* C15: a task moves forward through Probing, Downloading, Decompressing,
\* Converting to one terminal state, runs the prober, the downloader and the
\* converter at most once each, and after a failed step does nothing but end.
C15_TaskStateMachine ==
    [][\A t \in TaskIds :
          Moves(t) =>
              /\ Rank(frame'[t]) >= Rank(frame[t])
              /\ Rank(frame[t]) = 5 => frame'[t] = NoFrame
              /\ StepFailed(frame[t]) => frame'[t] = NoFrame
              /\ frame'[t] # NoFrame =>
                    /\ frame'[t].probes <= 1
                    /\ frame'[t].downloads <= 1
                    /\ frame'[t].conversions <= 1]_vars

\* C17: after the converter has run, with either exit status, the task goes
\* on to delete the .d file and return True exactly when the .o file exists,
\* and returns False exactly when it does not.
C17_OutcomeFromOutputFile ==
    [][\A t \in TaskIds :
          /\ At(t, "crx2rnx") /\ Moves(t) => frame'[t].pc = "check_o"
          /\ At(t, "check_o") /\ Moves(t) =>
                /\ frame'[t].pc = "rm_d" <=> ofile[KeyOf(t)] # "none"
                /\ frame'[t].pc = "ret_conversion_failed" <=> ofile[KeyOf(t)] = "none"
          /\ At(t, "rm_d") /\ frame[t].o_found = "after" /\ Moves(t)
                => frame'[t].pc = "ret_true"
          /\ At(t, "ret_true") /\ frame[t].o_found = "after" /\ Moves(t)
                => fut'[t] = "True"
          /\ At(t, "ret_conversion_failed") /\ Moves(t) => fut'[t] = "False"]_vars

C17_Witness ==
    \E t, u \in TaskIds :
        /\ At(t, "ret_true")
        /\ frame[t].crx_exit = "nonzero"
        /\ frame[t].o_found = "after"
        /\ At(u, "ret_conversion_failed")
        /\ frame[u].crx_exit = "zero"
        /\ frame[u].o_found = "missing"

C16_RunTerminates ==
    <>(/\ mpc = "done"
       /\ summary # <<>>
       /\ Len(tasks) = Len(dates_to_download_list) * Len(station_id_list)
       /\ \A t \in Submitted : fut[t] \in Terminal)

C16_Witness ==
    /\ mpc = "done"
    /\ summary = <<1, 2>>
    /\ \E t, u \in Submitted : fut[t] = "True" /\ fut[u] = "raised"

\* C19: a task whose decompressed file name does not end in "d" runs no
\* converter and still has the decompressed file in the target directory
\* when it is about to return True.
C19_UnconvertedFileKept ==
    \A t \in TaskIds :
        At(t, "ret_true") /\ marker # "d" /\ frame[t].unzipped = "True" =>
            /\ frame[t].conversions = 0
            /\ DecExists(KeyOf(t))

\* the digit of 10^(width - i) of n, for i = 1..width
RECURSIVE Pow10(_)
Pow10(k) == IF k = 0 THEN 1 ELSE 10 * Pow10(k - 1)

FixedWidth(n, width) ==
    [i \in 1..width |-> DigitChar((n \div Pow10(width - i)) % 10)]

\* C14: the URL is <root>/<yyyy>/<ddd>/<station>/<station><ddd>0.<yy>d.gz with
\* the year in 4 digits, the day of the year in 3 and the year modulo 100 in
\* 2; the local files are <station><ddd>0.<yy>d.gz, ...d and ...o in
\* daily/<yyyy>/<ddd>; (2025-04-10, abcd) gives .../2025/100/abcd/abcd1000.25d.gz
\* and abcd1000.25o.
C14_UrlPattern ==
    upc = "names" =>
        LET yyyy == FixedWidth(date.year, 4)
            ddd == FixedWidth(DayOfYear(date), 3)
            yy == FixedWidth(date.year % 100, 2)
            base == station_id \o ddd \o <<"0", ".">> \o yy
        IN  /\ combined_url = <<Root, "/">> \o yyyy \o <<"/">> \o ddd \o <<"/">>
                                \o station_id \o <<"/">> \o base \o <<"d", ".", "g", "z">>
            /\ download_dir_name = <<"d", "a", "i", "l", "y", "/">> \o yyyy \o <<"/">> \o ddd
            /\ file_name_gz = base \o <<"d", ".", "g", "z">>
            /\ file_name_d = base \o <<"d">>
            /\ dst_name = base \o <<"o">>
            /\ date = [year |-> 2025, month |-> 4, day |-> 10]
                  /\ station_id = <<"a", "b", "c", "d">> =>
                  /\ combined_url = <<Root, "/", "2", "0", "2", "5", "/", "1", "0", "0", "/",
                                      "a", "b", "c", "d", "/", "a", "b", "c", "d", "1", "0",
                                      "0", "0", ".", "2", "5", "d", ".", "g", "z">>
                  /\ dst_name = <<"a", "b", "c", "d", "1", "0", "0", "0", ".", "2", "5", "o">>

C14_Witness ==
    /\ upc = "names"
    /\ date = [year |-> 2005, month |-> 1, day |-> 9]
    /\ station_id = <<"p", "1", "9", "8">>
    /\ file_name_gz = <<"p", "1", "9", "8", "0", "0", "9", "0", ".", "0", "5", "d", ".",
                        "g", "z">>

====
